---- MODULE Spec2Model ----
(***************************************************************************)
(* Model of the books crawler: the bounded-concurrency fetcher with retry  *)
(* (src/crawler/scraper.py), the catalogue traversal with its checkpoint   *)
(* (crawl_all_books), the content-hash upsert with its change log and the  *)
(* crawl state (src/crawler/storage.py), and the per-key rate limiter of   *)
(* the API (src/api/rate_limiter.py).                                      *)
(*                                                                         *)
(* A Python dict is a sequence of <<key, value>> pairs with distinct keys, *)
(* in insertion order.  Field values are strings; None is the string       *)
(* "None".  Time is a coarse logical clock: it ticks at every page         *)
(* checkpoint of a run and at every direct save_book call, and a timestamp *)
(* is the string of its value.  A collection is the sequence of its        *)
(* documents.                                                              *)
(***************************************************************************)
EXTENDS Integers, Sequences, FiniteSets, TLC

VARIABLES
    books,          \* the 'books' collection: sequence of documents (dicts)
    changes,        \* the 'changes' collection: sequence of change events
    crawler_state,  \* the 'crawler_state' collection: sequence of documents
    clock,          \* logical time, read by datetime.now()
    visited_urls,   \* BookScraper.visited_urls
    semaphore,      \* value of BookScraper.semaphore (free tokens)
    pc,             \* position of the controller (0) and of each child task
    url,            \* url each coroutine is fetching
    attempt,        \* loop variable of fetch_with_retry, per coroutine
    result,         \* return value of each scrape_book task; for the
                    \* controller, "no_links" once a page without links has
                    \* ended the page loop ("no_links_next": it had a next link)
    ctl,            \* locals of crawl_all_books (resume: until its last use,
                    \* the choice of the first page)
    runs,           \* number of crawl_all_books calls started
    history,        \* direct save_book calls made so far: argument and return
    env,            \* the site: its catalogue, the page of each book url,
                    \* the counts of failed requests and of content changes
                    \* so far and the book that changed after a run;
                    \* the store: the write calls that raise at present, and
                    \* the page of the run on which one raised first;
                    \* whether the run resumes one that was killed
    fetch,          \* a direct fetch_with_retry call: its max_retries, the
                    \* responses of client.get, the sleeps, the return value
    hash_in,        \* arguments of the last compute_content_hash calls
    hash_out,       \* their return values
    state_call,     \* the last direct get_crawl_state / update_crawl_state
                    \* call: its argument, its return value, the calls so far
    request_windows,\* RateLimiter.request_windows: per key, the times kept
    rate_now,       \* datetime.now() as the rate limiter reads it
    rate_log,       \* the check_rate_limit calls so far: key, time, outcome
    cleanup_ret     \* the cleanup_old_windows calls so far and what the last
                    \* one raised

vars == <<books, changes, crawler_state, clock, visited_urls, semaphore, pc,
          url, attempt, result, ctl, runs, history, env, fetch, hash_in,
          hash_out, state_call, request_windows, rate_now, rate_log,
          cleanup_ret>>

crawlVars == <<crawler_state, visited_urls, semaphore, pc, url, attempt,
               result, ctl, runs, env>>
rateVars == <<request_windows, rate_now, rate_log, cleanup_ret>>
apiVars == <<state_call, rateVars>>
hashVars == <<fetch, hash_in, hash_out, apiVars>>

None == "None"

(***************************************************************************)
(* Bounds.                                                                 *)
(***************************************************************************)
crawler_concurrent_requests == 2   \* Settings.crawler_concurrent_requests
crawler_max_retries == 1           \* Settings.crawler_max_retries
MaxRuns == 2                       \* crawl_all_books calls in one behaviour
MaxSaves == 3                      \* direct save_book calls in one behaviour
MaxFaults == 2                     \* failed or unusable responses in one behaviour
MaxSiteChanges == 1                \* content changes of the site in one behaviour

(***************************************************************************)
(* Python dicts.                                                           *)
(***************************************************************************)
DictKeys(d) == {d[i][1] : i \in DOMAIN d}

\* k in d
In(k, d) == k \in DictKeys(d)

\* d.get(k)
Get(d, k) ==
    IF In(k, d) THEN d[CHOOSE i \in DOMAIN d : d[i][1] = k][2] ELSE None

\* d[k] = v
Put(d, k, v) ==
    IF In(k, d)
    THEN [i \in DOMAIN d |-> IF d[i][1] = k THEN <<k, v>> ELSE d[i]]
    ELSE Append(d, <<k, v>>)

\* {**d, **u}, and the effect of {'$set': u} on document d
RECURSIVE Merge(_, _)
Merge(d, u) ==
    IF u = <<>> THEN d ELSE Merge(Put(d, Head(u)[1], Head(u)[2]), Tail(u))

(***************************************************************************)
(* Book records as parse_book_page builds them.                            *)
(***************************************************************************)
\* keys of the dict parse_book_page returns, in the order it lists them
ParserFields ==
    <<"name", "description", "category", "price_including_tax",
      "price_excluding_tax", "availability", "number_of_reviews",
      "image_url", "rating", "source_url">>

\* the content fields (all but the url)
ContentFields == {ParserFields[i] : i \in 1..9}

\* one page content: the base values, with the fields in 'changed' altered
Value(field, changed) ==
    IF field \in changed THEN "new_" \o field ELSE "old_" \o field

BookData(changed, u) ==
    [i \in 1..10 |->
        IF ParserFields[i] = "source_url" THEN <<"source_url", u>>
        ELSE <<ParserFields[i], Value(ParserFields[i], changed)>>]

(***************************************************************************)
(* compute_content_hash.                                                   *)
(***************************************************************************)
relevant_fieldsImage ==
    <<"name", "description", "category", "price_including_tax",
      "price_excluding_tax", "availability", "number_of_reviews", "rating",
      "image_url">>

relevant_fields ==
    <<"name", "description", "category", "price_including_tax",
      "price_excluding_tax", "availability", "number_of_reviews", "rating">>

\* {k: book_data.get(k) for k in fields if k in book_data}
RECURSIVE Comprehension(_, _)
Comprehension(fields, book_data) ==
    IF fields = <<>> THEN <<>>
    ELSE LET k == Head(fields)
             rest == Comprehension(Tail(fields), book_data)
         IN IF In(k, book_data) THEN <<<<k, Get(book_data, k)>>>> \o rest
            ELSE rest

\* the field names in the order Python sorts them
SortedKeys ==
    <<"availability", "category", "description", "image_url", "name",
      "number_of_reviews", "price_excluding_tax", "price_including_tax",
      "rating", "source_url">>

\* json.dumps(d, sort_keys=...): the text lists the items of d, sorted by key
\* when sort_keys is set and in insertion order otherwise
JsonDumps(d, sort_keys) ==
    IF sort_keys THEN Comprehension(SortedKeys, d) ELSE d

\* hashlib.sha256(s).hexdigest(), taken to be collision free
Sha256(s) == <<"sha256", s>>

compute_content_hash(book_data) ==
    Sha256(JsonDumps(Comprehension(relevant_fields, book_data), TRUE))

(***************************************************************************)
(* BookStorage: save_book and the change log.                              *)
(***************************************************************************)
\* the write calls of the store client; env.failing holds the ones that raise
\* when called (none while the store is in order)
StoreWrites ==
    {"books.insert_one", "books.update_one", "changes.insert_one",
     "crawler_state.update_one"}

Raises(call) == call \in env.failing

\* save_html_snapshot: the path names the url and the time of the call
save_html_snapshot(u, now) == "book_" \o u \o "_" \o now

\* collection.find_one({'source_url': u}): index of the document, 0 if none
find_oneNever(bks, u) == 0

find_one(bks, u) ==
    IF \E i \in DOMAIN bks : Get(bks[i], "source_url") = u
    THEN CHOOSE i \in DOMAIN bks :
            /\ Get(bks[i], "source_url") = u
            /\ \A j \in DOMAIN bks : Get(bks[j], "source_url") = u => i <= j
    ELSE 0

tracked_fields ==
    <<"price_including_tax", "price_excluding_tax", "availability",
      "number_of_reviews", "rating", "description">>

\* the loop of _log_changes over the tracked fields
RECURSIVE DiffAll(_, _, _)
DiffAll(fields, old_book, new_data) ==
    IF fields = <<>> THEN <<>>
    ELSE LET f == Head(fields)
         IN <<<<f, [old |-> Get(old_book, f), new |-> Get(new_data, f)]>>>>
            \o DiffAll(Tail(fields), old_book, new_data)

RECURSIVE Diff(_, _, _)
Diff(fields, old_book, new_data) ==
    IF fields = <<>> THEN <<>>
    ELSE LET f == Head(fields)
             old_value == Get(old_book, f)
             new_value == Get(new_data, f)
             rest == Diff(Tail(fields), old_book, new_data)
         IN IF old_value # new_value
            THEN <<<<f, [old |-> old_value, new |-> new_value]>>>> \o rest
            ELSE rest

\* _log_changes: the change log after the call
log_changesAlways(log, old_book, new_data, now) ==
    Append(log, [book_id |-> Get(old_book, "_id"),
                 book_name |-> Get(new_data, "name"),
                 change_type |-> "updated",
                 changed_fields |-> Diff(tracked_fields, old_book, new_data),
                 timestamp |-> now])

log_changes(log, old_book, new_data, now) ==
    LET changed_fields == Diff(tracked_fields, old_book, new_data)
    IN IF changed_fields # <<>> /\ ~Raises("changes.insert_one")
       THEN Append(log, [book_id |-> Get(old_book, "_id"),
                         book_name |-> Get(new_data, "name"),
                         change_type |-> "updated",
                         changed_fields |-> changed_fields,
                         timestamp |-> now])
       ELSE log

\* _log_new_book: the change log after the call
log_new_bookReplace(log, book_id, book_data, now) ==
    <<[book_id |-> book_id,
       book_name |-> Get(book_data, "name"),
       change_type |-> "new",
       changed_fields |-> <<>>,
       timestamp |-> now]>>

log_new_bookSilent(log, book_id, book_data, now) == log

log_new_book(log, book_id, book_data, now) ==
    IF Raises("changes.insert_one") THEN log
    ELSE Append(log, [book_id |-> book_id,
                      book_name |-> Get(book_data, "name"),
                      change_type |-> "new",
                      changed_fields |-> <<>>,
                      timestamp |-> now])

\* the ObjectId insert_one gives the next document
NewId(bks) == ToString(Len(bks) + 1)

\* save_book(book_data, html) at time now: the collections after the call and
\* the value returned.  The unique index on source_url makes insert_one raise
\* on a second document of a url; save_book then returns None, as it does
\* when update_one or insert_one raises for another reason.  _log_changes
\* runs before update_one and both logging methods keep their exceptions.
save_bookTouch(bks, log, book_data, now) ==
    LET html_path == save_html_snapshot(Get(book_data, "source_url"), now)
        content_hash == compute_content_hash(book_data)
        i == find_one(bks, Get(book_data, "source_url"))
    IN IF i # 0
       THEN [books |-> [bks EXCEPT ![i] =
                           Merge(bks[i],
                                 Merge(book_data,
                                       <<<<"content_hash", content_hash>>,
                                         <<"last_updated", now>>,
                                         <<"html_snapshot_path", html_path>>>>))],
             changes |-> IF Get(bks[i], "content_hash") # content_hash
                         THEN log_changes(log, bks[i], book_data, now)
                         ELSE log,
             ret |-> Get(bks[i], "_id")]
       ELSE [books |-> Append(bks,
                         Merge(book_data,
                               <<<<"crawl_timestamp", now>>,
                                 <<"last_updated", now>>,
                                 <<"status", "active">>,
                                 <<"content_hash", content_hash>>,
                                 <<"html_snapshot_path", html_path>>,
                                 <<"_id", NewId(bks)>>>>)),
             changes |-> log_new_book(log, NewId(bks), book_data, now),
             ret |-> NewId(bks)]

save_book(bks, log, book_data, now) ==
    LET html_path == save_html_snapshot(Get(book_data, "source_url"), now)
        content_hash == compute_content_hash(book_data)
        i == find_one(bks, Get(book_data, "source_url"))
    IN IF i # 0
       THEN IF Get(bks[i], "content_hash") # content_hash
            THEN IF Raises("books.update_one")
                 THEN [books |-> bks,
                       changes |-> log_changes(log, bks[i], book_data, now),
                       ret |-> None]
                 ELSE
                 [books |-> [bks EXCEPT ![i] =
                               Merge(bks[i],
                                     Merge(book_data,
                                           <<<<"content_hash", content_hash>>,
                                             <<"last_updated", now>>,
                                             <<"html_snapshot_path", html_path>>>>))],
                  changes |-> log_changes(log, bks[i], book_data, now),
                  ret |-> Get(bks[i], "_id")]
            ELSE [books |-> bks, changes |-> log, ret |-> Get(bks[i], "_id")]
       ELSE IF \/ \E j \in DOMAIN bks :
                     Get(bks[j], "source_url") = Get(book_data, "source_url")
               \/ Raises("books.insert_one")
            THEN [books |-> bks, changes |-> log, ret |-> None]
            ELSE [books |-> Append(bks,
                              Merge(book_data,
                                    <<<<"crawl_timestamp", now>>,
                                      <<"last_updated", now>>,
                                      <<"status", "active">>,
                                      <<"content_hash", content_hash>>,
                                      <<"html_snapshot_path", html_path>>,
                                      <<"_id", NewId(bks)>>>>)),
                  changes |-> log_new_book(log, NewId(bks), book_data, now),
                  ret |-> NewId(bks)]

\* the write calls that save_book reaches for book_data
SaveWrites(bks, book_data) ==
    LET i == find_one(bks, Get(book_data, "source_url"))
    IN IF i # 0
       THEN IF Get(bks[i], "content_hash") # compute_content_hash(book_data)
            THEN {"books.update_one"} \cup
                 (IF Diff(tracked_fields, bks[i], book_data) # <<>>
                  THEN {"changes.insert_one"} ELSE {})
            ELSE {}
       ELSE {"books.insert_one"} \cup
            (IF Raises("books.insert_one") THEN {} ELSE {"changes.insert_one"})

(***************************************************************************)
(* BookStorage: the crawl state.                                           *)
(***************************************************************************)
\* get_crawl_state: the stored document, or the default one
get_crawl_stateEmpty(coll) == IF coll # <<>> THEN coll[1] ELSE <<>>

get_crawl_state(coll) ==
    IF coll # <<>> THEN coll[1]
    ELSE <<<<"last_successful_url", None>>,
           <<"last_crawl_time", None>>,
           <<"total_books_crawled", 0>>,
           <<"status", "idle">>,
           <<"error_message", None>>>>

\* update_crawl_state: update_one({}, {'$set': state_data}, upsert=True)
update_crawl_stateReplace(coll, state_data) ==
    IF Raises("crawler_state.update_one") THEN coll ELSE <<state_data>>

update_crawl_state(coll, state_data) ==
    IF Raises("crawler_state.update_one") THEN coll
    ELSE IF coll = <<>> THEN <<state_data>>
    ELSE [coll EXCEPT ![1] = Merge(coll[1], state_data)]

\* datetime.now(timezone.utc)
Now == ToString(clock)

(***************************************************************************)
(* The site, and the parser's reading of its pages.                        *)
(***************************************************************************)
\* f"{self.base_url}catalogue/page-1.html"
FirstPage == "page-1"

\* the catalogues.  "shop": page-1 lists three books, one of them twice, and
\* links to page-2, the last page, which lists one.  "scenario": page-1 lists
\* A and B and links to page-2, which lists nothing and links nowhere.
Layouts == {"shop", "scenario"}

SiteLinks(page) ==
    IF env.layout = "shop"
    THEN IF page = "page-1" THEN <<"A", "B", "A">> ELSE <<"B">>
    ELSE IF page = "page-1" THEN <<"A", "B">> ELSE <<>>

SiteNext(page) == IF page = "page-1" THEN "page-2" ELSE None

\* what a successful fetch of a catalogue page returns: the listing, or a page
\* without any product, with the link to the next page or without it
CatalogHtml == {"listing", "empty", "empty_next"}

extract_book_links(html, page) ==
    IF html = "listing" THEN SiteLinks(page) ELSE <<>>

get_next_page_url(html, page) ==
    IF html \in {"listing", "empty_next"} THEN SiteNext(page) ELSE None

BookUrls == {"A", "B"}

\* what a successful fetch of a book page returns: the book, the book with a
\* new availability text, or a page the parser finds no name in
BookHtml == {"base", "restocked", "garbage"}

\* one more failed or unusable response
Fault == [env EXCEPT !.faults = @ + 1]

\* the site record, noting the page of the run on which a write call raised
Noted(e, calls, page) ==
    IF calls \cap env.failing # {} /\ e.failed_at = None
    THEN [e EXCEPT !.failed_at = page] ELSE e

\* the book page served for u is not the one served for it before
Changed(html, u) == html # "garbage" /\ html # env.site[u]

\* the site after serving html for u
Served(html, u) ==
    IF html = "garbage" THEN Fault
    ELSE IF Changed(html, u)
         THEN [env EXCEPT !.changes = @ + 1, !.site[u] = html]
         ELSE env

\* parse_book_page: the record, or <<>> for None
parse_book_page(html, u) ==
    CASE html = "base" -> BookData({}, u)
      [] html = "restocked" -> BookData({"availability"}, u)
      [] OTHER -> <<>>

\* outcomes of client.get / raise_for_status other than success
FetchErrors == {"http_404", "http_status", "request_error", "unexpected"}

(***************************************************************************)
(* BookScraper.fetch_with_retry.  A coroutine is the controller (0) or the *)
(* scrape_book task of one link of the current page.  It is suspended only *)
(* at an await: acquiring the semaphore, client.get, asyncio.sleep.        *)
(***************************************************************************)
Coroutines == 0 .. Len(SiteLinks(FirstPage))

Tasks == 1 .. Len(ctl.book_links)

\* asyncio.Semaphore.acquire returns only while the value is positive
SemCanAcquireAlways(value) == TRUE

SemCanAcquire(value) == value > 0

\* range(max_retries + 1): the last value of attempt
LastAttemptOneLess(max_retries) == max_retries - 1

LastAttempt(max_retries) == max_retries

\* the except clauses with one answer altered
OnErrorRetry404(err, att, max_retries) ==
    IF err \in {"http_404", "http_status", "request_error"}
       /\ att < LastAttempt(max_retries)
    THEN "sleep" ELSE "none"

OnErrorRetryUnexpected(err, att, max_retries) ==
    IF err \in {"unexpected", "http_status", "request_error"}
       /\ att < LastAttempt(max_retries)
    THEN "sleep" ELSE "none"

\* the except clauses: "sleep" to wait and try again, "none" to return None
OnError(err, att, max_retries) ==
    CASE err = "http_404" -> "none"
      [] err \in {"http_status", "request_error"} ->
            IF att < LastAttempt(max_retries) THEN "sleep" ELSE "none"
      [] OTHER -> "none"

\* entering "async with self.semaphore": with a free token the coroutine goes
\* on to client.get without being suspended, else it waits for one
Enter(f, value) == IF SemCanAcquire(value) THEN "get" ELSE "acquire"
Taken(f, value) == IF SemCanAcquire(value) THEN value - 1 ELSE value

\* the tasks gather created all run up to their first await before any
\* response is delivered
Started == \A s \in Tasks : pc[s] # "start"

\* a waiting coroutine gets a token: response = await client.get(...)
Acquire(f) ==
    /\ pc[f] = "acquire"
    /\ SemCanAcquire(semaphore)
    /\ semaphore' = semaphore - 1
    /\ pc' = [pc EXCEPT ![f] = "get"]
    /\ UNCHANGED <<books, changes, crawler_state, clock, visited_urls, url,
                   attempt, result, ctl, runs, history, env, hashVars>>

\* the request fails and the except clause sleeps with the token in hand
GetFailsRetryHolds(f, err) ==
    /\ pc[f] = "get"
    /\ Started
    /\ env.faults < MaxFaults
    /\ env' = Fault
    /\ OnError(err, attempt[f], crawler_max_retries) = "sleep"
    /\ pc' = [pc EXCEPT ![f] = "sleep"]
    /\ UNCHANGED <<books, changes, crawler_state, clock, visited_urls, url,
                   attempt, result, ctl, runs, history, semaphore, hashVars>>

\* the request fails and the except clause sleeps
GetFailsRetry(f, err) ==
    /\ pc[f] = "get"
    /\ Started
    /\ env.faults < MaxFaults
    /\ env' = Fault
    /\ OnError(err, attempt[f], crawler_max_retries) = "sleep"
    /\ semaphore' = semaphore + 1
    /\ pc' = [pc EXCEPT ![f] = "sleep"]
    /\ UNCHANGED <<books, changes, crawler_state, clock, visited_urls, url,
                   attempt, result, ctl, runs, history, hashVars>>

\* asyncio.sleep(crawler_retry_delay * (attempt + 1)) returns: next iteration
Wake(f) ==
    /\ pc[f] = "sleep"
    /\ attempt' = [attempt EXCEPT ![f] = @ + 1]
    /\ pc' = [pc EXCEPT ![f] = Enter(f, semaphore)]
    /\ semaphore' = Taken(f, semaphore)
    /\ UNCHANGED <<books, changes, crawler_state, clock, visited_urls,
                   url, result, ctl, runs, history, env, hashVars>>

(***************************************************************************)
(* BookScraper.scrape_book, one task per link of the page.                 *)
(***************************************************************************)
\* the task starts, after the tasks gather created before it: the visited
\* check, then into fetch_with_retry
TaskStart(t) ==
    /\ t \in Tasks
    /\ pc[t] = "start"
    /\ \A s \in 1..(t - 1) : pc[s] # "start"
    /\ IF url[t] \in visited_urls
       THEN /\ pc' = [pc EXCEPT ![t] = "done"]
            /\ result' = [result EXCEPT ![t] = "True"]
            /\ UNCHANGED semaphore
       ELSE /\ pc' = [pc EXCEPT ![t] = Enter(t, semaphore)]
            /\ semaphore' = Taken(t, semaphore)
            /\ UNCHANGED result
    /\ UNCHANGED <<books, changes, crawler_state, clock, visited_urls,
                   url, attempt, ctl, runs, history, env, hashVars>>

\* fetch_with_retry returns None, and the failure of the child ends the run
TaskFetchFailsAborts(t, err) ==
    /\ t \in Tasks
    /\ pc[t] = "get"
    /\ Started
    /\ env.faults < MaxFaults
    /\ env' = Fault
    /\ OnError(err, attempt[t], crawler_max_retries) = "none"
    /\ semaphore' = semaphore + 1
    /\ pc' = [pc EXCEPT ![t] = "done", ![0] = "raised"]
    /\ result' = [result EXCEPT ![t] = "False"]
    /\ attempt' = [attempt EXCEPT ![t] = 0]
    /\ UNCHANGED <<books, changes, crawler_state, clock, visited_urls, url,
                   ctl, runs, history, hashVars>>

\* fetch_with_retry returns None after noting the failure in the Crawl State
TaskFetchFailsMarks(t, err) ==
    /\ t \in Tasks
    /\ pc[t] = "get"
    /\ Started
    /\ env.faults < MaxFaults
    /\ env' = Fault
    /\ OnError(err, attempt[t], crawler_max_retries) = "none"
    /\ semaphore' = semaphore + 1
    /\ pc' = [pc EXCEPT ![t] = "done"]
    /\ result' = [result EXCEPT ![t] = "False"]
    /\ attempt' = [attempt EXCEPT ![t] = 0]
    /\ crawler_state' = update_crawl_state(crawler_state,
                            <<<<"error_message", err>>>>)
    /\ UNCHANGED <<books, changes, clock, visited_urls, url,
                   ctl, runs, history, hashVars>>

\* fetch_with_retry returns None with the token of the request still taken
TaskFetchFailsKeepsToken(t, err) ==
    /\ t \in Tasks
    /\ pc[t] = "get"
    /\ Started
    /\ env.faults < MaxFaults
    /\ env' = Fault
    /\ OnError(err, attempt[t], crawler_max_retries) = "none"
    /\ pc' = [pc EXCEPT ![t] = "done"]
    /\ result' = [result EXCEPT ![t] = "False"]
    /\ attempt' = [attempt EXCEPT ![t] = 0]
    /\ UNCHANGED <<books, changes, crawler_state, clock, visited_urls, url,
                   semaphore, ctl, runs, history, hashVars>>

\* fetch_with_retry returns None and the url is marked as visited all the same
TaskFetchFailsVisited(t, err) ==
    /\ t \in Tasks
    /\ pc[t] = "get"
    /\ Started
    /\ env.faults < MaxFaults
    /\ env' = Fault
    /\ OnError(err, attempt[t], crawler_max_retries) = "none"
    /\ semaphore' = semaphore + 1
    /\ pc' = [pc EXCEPT ![t] = "done"]
    /\ result' = [result EXCEPT ![t] = "False"]
    /\ attempt' = [attempt EXCEPT ![t] = 0]
    /\ visited_urls' = visited_urls \cup {url[t]}
    /\ UNCHANGED <<books, changes, crawler_state, clock, url,
                   ctl, runs, history, hashVars>>

\* fetch_with_retry returns None: scrape_book returns False
TaskFetchFails(t, err) ==
    /\ t \in Tasks
    /\ pc[t] = "get"
    /\ Started
    /\ env.faults < MaxFaults
    /\ env' = Fault
    /\ OnError(err, attempt[t], crawler_max_retries) = "none"
    /\ semaphore' = semaphore + 1
    /\ pc' = [pc EXCEPT ![t] = "done"]
    /\ result' = [result EXCEPT ![t] = "False"]
    /\ attempt' = [attempt EXCEPT ![t] = 0]
    /\ UNCHANGED <<books, changes, crawler_state, clock, visited_urls, url,
                   ctl, runs, history, hashVars>>

\* the page arrives: parse, save_book, visited_urls.add, with no await between
TaskFetched(t, html) ==
    /\ t \in Tasks
    /\ pc[t] = "get"
    /\ Started
    /\ env.faults + (IF html = "garbage" THEN 1 ELSE 0) <= MaxFaults
    /\ env.changes + (IF Changed(html, url[t]) THEN 1 ELSE 0) <= MaxSiteChanges
    /\ env' = Noted(Served(html, url[t]),
                    IF parse_book_page(html, url[t]) = <<>> THEN {}
                    ELSE SaveWrites(books, parse_book_page(html, url[t])),
                    url[0])
    /\ semaphore' = semaphore + 1
    /\ pc' = [pc EXCEPT ![t] = "done"]
    /\ LET book_data == parse_book_page(html, url[t])
       IN IF book_data = <<>>
          THEN /\ result' = [result EXCEPT ![t] = "False"]
               /\ UNCHANGED <<books, changes, clock, visited_urls>>
          ELSE LET r == save_book(books, changes, book_data, Now)
               IN /\ books' = r.books
                  /\ changes' = r.changes
                  /\ UNCHANGED clock
                  /\ IF r.ret # None
                     THEN /\ visited_urls' = visited_urls \cup {url[t]}
                          /\ result' = [result EXCEPT ![t] = "True"]
                     ELSE /\ UNCHANGED visited_urls
                          /\ result' = [result EXCEPT ![t] = "False"]
    /\ attempt' = [attempt EXCEPT ![t] = 0]
    /\ UNCHANGED <<crawler_state, url, ctl, runs, history, hashVars>>

(***************************************************************************)
(* BookScraper.crawl_all_books.                                            *)
(***************************************************************************)
\* lines 167-175: where the run starts
start_urlAlwaysState(resume, state) ==
    IF Get(state, "last_successful_url") # None
    THEN Get(state, "last_successful_url")
    ELSE FirstPage

start_url(resume, state) ==
    IF resume /\ Get(state, "last_successful_url") # None
    THEN Get(state, "last_successful_url")
    ELSE FirstPage

\* the locals of crawl_all_books outside a call
NoLocals ==
    [resume |-> FALSE, total_books |-> 0, book_links |-> <<>>,
     next_page_url |-> None]

\* every coroutine but the controller back to rest
Rest(fn, v) == [f \in Coroutines |-> IF f = 0 THEN fn[0] ELSE v]

\* crawl_all_books(resume) is called, on a new BookScraper or on the one of
\* the run before; it runs up to its first client.get
StartRun(resume, fresh) ==
    /\ pc[0] \in {"idle", "returned", "raised", "interrupted", "killed"}
    /\ pc[0] = "killed" => fresh
    /\ runs < MaxRuns
    /\ runs' = runs + 1
    /\ visited_urls' = IF fresh THEN {} ELSE visited_urls
    /\ crawler_state' = update_crawl_state(crawler_state,
                            <<<<"status", "running">>, <<"error_message", None>>>>)
    /\ ctl' = [resume |-> resume, total_books |-> 0, book_links |-> <<>>,
               next_page_url |-> None]
    /\ url' = [Rest(url, None) EXCEPT
                  ![0] = start_url(resume, get_crawl_state(crawler_state'))]
    /\ pc' = [Rest(pc, "idle") EXCEPT ![0] = Enter(0, semaphore)]
    /\ semaphore' = Taken(0, semaphore)
    /\ attempt' = [f \in Coroutines |-> 0]
    /\ result' = [f \in Coroutines |-> None]
    /\ env' = Noted([env EXCEPT !.failed_at = None,
                                !.resumed = resume /\ pc[0] = "killed"],
                    {"crawler_state.update_one"},
                    start_url(resume, get_crawl_state(crawler_state')))
    /\ UNCHANGED <<books, changes, clock, history, hashVars>>

\* the catalogue page cannot be fetched and the exception leaves
\* crawl_all_books without a word in the Crawl State
CatalogFailsUnmarked(err) ==
    /\ pc[0] = "get"
    /\ env.faults < MaxFaults
    /\ env' = Fault
    /\ OnError(err, attempt[0], crawler_max_retries) = "none"
    /\ semaphore' = semaphore + 1
    /\ pc' = [pc EXCEPT ![0] = "raised"]
    /\ ctl' = NoLocals
    /\ url' = [url EXCEPT ![0] = None]
    /\ attempt' = [attempt EXCEPT ![0] = 0]
    /\ UNCHANGED <<books, changes, crawler_state, clock, visited_urls, result,
                   runs, history, hashVars>>

\* the catalogue page cannot be fetched and the handler records the failure
\* without a message
CatalogFailsNoMessage(err) ==
    /\ pc[0] = "get"
    /\ env.faults < MaxFaults
    /\ env' = Noted(Fault, {"crawler_state.update_one"}, url[0])
    /\ OnError(err, attempt[0], crawler_max_retries) = "none"
    /\ semaphore' = semaphore + 1
    /\ crawler_state' = update_crawl_state(crawler_state,
            <<<<"status", "failed">>, <<"error_message", None>>>>)
    /\ pc' = [pc EXCEPT ![0] = "raised"]
    /\ ctl' = NoLocals
    /\ url' = [url EXCEPT ![0] = None]
    /\ attempt' = [attempt EXCEPT ![0] = 0]
    /\ UNCHANGED <<books, changes, clock, visited_urls, result, runs, history,
                   hashVars>>

\* the catalogue page cannot be fetched: scrape_catalog_page returns [], the
\* unpacking into two names raises ValueError, the handler records the failure
\* and re-raises
CatalogFails(err) ==
    /\ pc[0] = "get"
    /\ env.faults < MaxFaults
    /\ env' = Noted(Fault, {"crawler_state.update_one"}, url[0])
    /\ OnError(err, attempt[0], crawler_max_retries) = "none"
    /\ semaphore' = semaphore + 1
    /\ crawler_state' = update_crawl_state(crawler_state,
            <<<<"status", "failed">>,
              <<"error_message", "not enough values to unpack (expected 2, got 0)">>>>)
    /\ pc' = [pc EXCEPT ![0] = "raised"]
    /\ ctl' = NoLocals
    /\ url' = [url EXCEPT ![0] = None]
    /\ attempt' = [attempt EXCEPT ![0] = 0]
    /\ UNCHANGED <<books, changes, clock, visited_urls, result, runs, history,
                   hashVars>>

\* the completion update of lines 215-220
CompletedAsFailed(coll, total_books, now) ==
    update_crawl_state(coll,
        <<<<"status", "failed">>, <<"last_crawl_time", now>>,
          <<"total_books_crawled", total_books>>, <<"error_message", None>>>>)

\* the completion update with the cursor cleared for the next run
CompletedResetsCursor(coll, total_books, now) ==
    update_crawl_state(coll,
        <<<<"status", "completed">>, <<"last_crawl_time", now>>,
          <<"total_books_crawled", total_books>>, <<"error_message", None>>,
          <<"last_successful_url", None>>>>)

Completed(coll, total_books, now) ==
    update_crawl_state(coll,
        <<<<"status", "completed">>, <<"last_crawl_time", now>>,
          <<"total_books_crawled", total_books>>, <<"error_message", None>>>>)

\* the checkpoint of lines 204-209
CheckpointCompleted(coll, page, total_books, now) ==
    update_crawl_state(coll,
        <<<<"last_successful_url", page>>, <<"last_crawl_time", now>>,
          <<"total_books_crawled", total_books>>, <<"status", "completed">>>>)

CheckpointFirstPage(coll, page, total_books, now) ==
    update_crawl_state(coll,
        <<<<"last_successful_url", FirstPage>>, <<"last_crawl_time", now>>,
          <<"total_books_crawled", total_books>>, <<"status", "running">>>>)

Checkpoint(coll, page, total_books, now) ==
    update_crawl_state(coll,
        <<<<"last_successful_url", page>>, <<"last_crawl_time", now>>,
          <<"total_books_crawled", total_books>>, <<"status", "running">>>>)

\* the catalogue page arrives: no link ends the loop, else one task per link
CatalogFetched(html) ==
    /\ pc[0] = "get"
    /\ IF html # "listing"
       THEN /\ env.faults < MaxFaults
            /\ env' = Noted(Fault, {"crawler_state.update_one"}, url[0])
       ELSE UNCHANGED env
    /\ semaphore' = semaphore + 1
    /\ LET book_links == extract_book_links(html, url[0])
           next_page_url == get_next_page_url(html, url[0])
       IN IF book_links = <<>>
          THEN /\ crawler_state' = Completed(crawler_state, ctl.total_books, Now)
               /\ clock' = clock + 1
               /\ pc' = [pc EXCEPT ![0] = "returned"]
               /\ ctl' = NoLocals
               /\ url' = [url EXCEPT ![0] = None]
               /\ result' = [result EXCEPT ![0] =
                      IF next_page_url = None THEN "no_links" ELSE "no_links_next"]
          ELSE /\ ctl' = [ctl EXCEPT !.book_links = book_links,
                                     !.next_page_url = next_page_url,
                                     !.resume = FALSE]
               /\ pc' = [f \in Coroutines |->
                            IF f = 0 THEN "gather"
                            ELSE IF f <= Len(book_links) THEN "start" ELSE "idle"]
               /\ url' = [f \in Coroutines |->
                            IF f = 0 THEN url[0]
                            ELSE IF f <= Len(book_links) THEN book_links[f]
                                 ELSE None]
               /\ result' = [f \in Coroutines |-> None]
               /\ UNCHANGED <<crawler_state, clock>>
    /\ attempt' = [attempt EXCEPT ![0] = 0]
    /\ UNCHANGED <<books, changes, visited_urls, runs, history, hashVars>>

\* sum(1 for r in results if r is True)
SuccessesFirst == IF result[1] = "True" THEN 1 ELSE 0

Successes == Cardinality({t \in Tasks : result[t] = "True"})

\* await asyncio.gather(*tasks) returns once every task has returned
BatchDoneAny == \E t \in Tasks : pc[t] = "done"

BatchDone == \A t \in Tasks : pc[t] = "done"

\* gather returns: the checkpoint, then the next page or the completion update
GatherDone ==
    /\ pc[0] = "gather"
    /\ BatchDone
    /\ LET total_books == ctl.total_books + Successes
           checkpointed == Checkpoint(crawler_state, url[0], total_books, Now)
       IN /\ IF ctl.next_page_url # None
             THEN /\ crawler_state' = checkpointed
                  /\ ctl' = [ctl EXCEPT !.total_books = total_books,
                                        !.book_links = <<>>,
                                        !.next_page_url = None]
                  /\ url' = [Rest(url, None) EXCEPT ![0] = ctl.next_page_url]
                  /\ pc' = [Rest(pc, "idle") EXCEPT ![0] = Enter(0, semaphore)]
                  /\ semaphore' = Taken(0, semaphore)
             ELSE /\ crawler_state' = Completed(checkpointed, total_books, Now)
                  /\ ctl' = NoLocals
                  /\ url' = [f \in Coroutines |-> None]
                  /\ pc' = [Rest(pc, "idle") EXCEPT ![0] = "returned"]
                  /\ UNCHANGED semaphore
    /\ clock' = clock + 1
    /\ attempt' = [f \in Coroutines |-> 0]
    /\ result' = [f \in Coroutines |-> None]
    /\ env' = Noted(env, {"crawler_state.update_one"}, url[0])
    /\ UNCHANGED <<books, changes, visited_urls, runs, history, hashVars>>

Next ==
    \/ \E resume \in BOOLEAN, fresh \in BOOLEAN : StartRun(resume, fresh)
    \/ \E f \in Coroutines : Acquire(f)
    \/ \E f \in Coroutines, err \in FetchErrors : GetFailsRetry(f, err)
    \/ \E f \in Coroutines : Wake(f)
    \/ \E err \in FetchErrors : CatalogFails(err)
    \/ \E html \in CatalogHtml : CatalogFetched(html)
    \/ \E t \in Coroutines : TaskStart(t)
    \/ \E t \in Coroutines, err \in FetchErrors : TaskFetchFails(t, err)
    \/ \E t \in Coroutines, html \in BookHtml : TaskFetched(t, html)
    \/ GatherDone

(***************************************************************************)
(* Runs over a store whose write calls may raise for a while.              *)
(***************************************************************************)
\* a write call of the store begins to raise (connection lost, disk full)
StoreFails(call) ==
    /\ env.failing = {}
    /\ env.faults < MaxFaults
    /\ env' = [env EXCEPT !.failing = {call}, !.faults = @ + 1]
    /\ UNCHANGED <<books, changes, crawler_state, clock, visited_urls,
                   semaphore, pc, url, attempt, result, ctl, runs, history,
                   hashVars>>

\* the store is in order again
StoreRecovers ==
    /\ env.failing # {}
    /\ env' = [env EXCEPT !.failing = {}]
    /\ UNCHANGED <<books, changes, crawler_state, clock, visited_urls,
                   semaphore, pc, url, attempt, result, ctl, runs, history,
                   hashVars>>

\* the availability text of a book changes on the site while no run is active
SiteChanges(u) ==
    /\ pc[0] = "returned"
    /\ env.changes < MaxSiteChanges
    /\ env.site[u] = "base"
    /\ env' = [env EXCEPT !.site[u] = "restocked", !.changes = @ + 1,
                          !.between = [url |-> u, run |-> runs]]
    /\ UNCHANGED <<books, changes, crawler_state, clock, visited_urls,
                   semaphore, pc, url, attempt, result, ctl, runs, history,
                   hashVars>>

NextSite ==
    \/ Next
    \/ \E u \in BookUrls : SiteChanges(u)

NextFaulty ==
    \/ Next
    \/ \E call \in StoreWrites : StoreFails(call)
    \/ StoreRecovers

(***************************************************************************)
(* Direct calls of save_book, as the unit tests make them.                 *)
(***************************************************************************)
StoreUrls == {"A", "B"}

\* the records submitted: the base record of a url and the records that differ
\* from it in one content field
StoreInputs ==
    {BookData(c, u) : c \in {{}} \cup {{f} : f \in ContentFields},
                      u \in StoreUrls}

\* the site and the store before the first run
EnvInit(layout) ==
    [site |-> [u \in BookUrls |-> "base"], layout |-> layout, faults |-> 0,
     changes |-> 0, between |-> [url |-> None, run |-> 0], failing |-> {},
     failed_at |-> None, resumed |-> FALSE]

(***************************************************************************)
(* Runs that are stopped from outside.                                     *)
(***************************************************************************)
\* the controller is inside a run
Running == pc[0] \in {"get", "acquire", "sleep", "gather"}

\* CancelledError or KeyboardInterrupt reaches crawl_all_books while it is
\* suspended, and the handler for Exception marks the run as failed
InterruptMarksFailed ==
    /\ Running
    /\ pc' = [Rest(pc, "idle") EXCEPT ![0] = "interrupted"]
    /\ semaphore' = crawler_concurrent_requests
    /\ url' = [f \in Coroutines |-> None]
    /\ attempt' = [f \in Coroutines |-> 0]
    /\ result' = [f \in Coroutines |-> None]
    /\ ctl' = NoLocals
    /\ crawler_state' = update_crawl_state(crawler_state,
            <<<<"status", "failed">>, <<"error_message", "cancelled">>>>)
    /\ UNCHANGED <<books, changes, clock, visited_urls, runs, history,
                   env, hashVars>>

\* CancelledError or KeyboardInterrupt reaches crawl_all_books while it is
\* suspended: neither is an Exception, so no except clause of the scraper
\* runs; every "async with self.semaphore" in progress releases its token and
\* the children awaited by gather are cancelled with it
Interrupt ==
    /\ Running
    /\ pc' = [Rest(pc, "idle") EXCEPT ![0] = "interrupted"]
    /\ semaphore' = crawler_concurrent_requests
    /\ url' = [f \in Coroutines |-> None]
    /\ attempt' = [f \in Coroutines |-> 0]
    /\ result' = [f \in Coroutines |-> None]
    /\ ctl' = NoLocals
    /\ UNCHANGED <<books, changes, crawler_state, clock, visited_urls, runs,
                   history, env, hashVars>>

\* the process is killed while the run is suspended: the next run is made by
\* a new process, on a new BookScraper
Crash ==
    /\ Running
    /\ pc' = [Rest(pc, "idle") EXCEPT ![0] = "killed"]
    /\ semaphore' = crawler_concurrent_requests
    /\ visited_urls' = {}
    /\ url' = [f \in Coroutines |-> None]
    /\ attempt' = [f \in Coroutines |-> 0]
    /\ result' = [f \in Coroutines |-> None]
    /\ ctl' = NoLocals
    /\ UNCHANGED <<books, changes, crawler_state, clock, runs, history, env,
                   hashVars>>

\* save_book up to its first write call: insert_one on the insert path, the
\* insert_one of _log_changes on the update path
FirstWrite(bks, log, book_data, now) ==
    LET r == save_book(bks, log, book_data, now)
    IN IF find_one(bks, Get(book_data, "source_url")) = 0
       THEN [books |-> r.books, changes |-> log]
       ELSE [books |-> bks, changes |-> r.changes]

\* the process is killed inside save_book, between its two write calls
CrashInSave(t, html) ==
    /\ t \in Tasks
    /\ pc[t] = "get"
    /\ Started
    /\ env.changes + (IF Changed(html, url[t]) THEN 1 ELSE 0) <= MaxSiteChanges
    /\ parse_book_page(html, url[t]) # <<>>
    /\ LET w == FirstWrite(books, changes, parse_book_page(html, url[t]), Now)
       IN /\ <<w.books, w.changes>> # <<books, changes>>
          /\ books' = w.books
          /\ changes' = w.changes
    /\ env' = Served(html, url[t])
    /\ pc' = [Rest(pc, "idle") EXCEPT ![0] = "killed"]
    /\ semaphore' = crawler_concurrent_requests
    /\ visited_urls' = {}
    /\ url' = [f \in Coroutines |-> None]
    /\ attempt' = [f \in Coroutines |-> 0]
    /\ result' = [f \in Coroutines |-> None]
    /\ ctl' = NoLocals
    /\ UNCHANGED <<crawler_state, clock, runs, history, hashVars>>

NextStopped ==
    \/ Next
    \/ Interrupt
    \/ Crash
    \/ \E t \in Coroutines, html \in BookHtml : CrashInSave(t, html)

\* the state after BookScraper() on an empty database
InitScraper ==
    /\ env \in {EnvInit(layout) : layout \in Layouts}
    /\ books = <<>>
    /\ changes = <<>>
    /\ crawler_state = <<>>
    /\ clock = 0
    /\ visited_urls = {}
    /\ semaphore = crawler_concurrent_requests
    /\ pc = [f \in Coroutines |-> "idle"]
    /\ url = [f \in Coroutines |-> None]
    /\ attempt = [f \in Coroutines |-> 0]
    /\ result = [f \in Coroutines |-> None]
    /\ ctl = NoLocals
    /\ runs = 0
    /\ history = <<>>
    /\ hash_out = <<>>
    /\ state_call = [op |-> "none", arg |-> <<>>, ret |-> <<>>, n |-> 0]
    /\ request_windows = [k \in {} |-> <<>>]
    /\ rate_now = 0
    /\ rate_log = <<>>
    /\ cleanup_ret = [raised |-> None, n |-> 0]
    /\ fetch = [max_retries |-> 0, responses |-> <<>>, sleeps |-> <<>>,
                ret |-> "idle"]

InitSite == InitScraper /\ hash_in = <<>>

Init == InitSite /\ env.layout = "shop"

SaveCall(book_data) ==
    /\ Len(history) < MaxSaves
    /\ LET r == save_book(books, changes, book_data, Now)
       IN /\ books' = r.books
          /\ changes' = r.changes
          /\ history' = Append(history, [book_data |-> book_data, ret |-> r.ret])
    /\ clock' = clock + 1
    /\ UNCHANGED <<crawlVars, hashVars>>

NextStore == \E book_data \in StoreInputs : SaveCall(book_data)

SpecStore == Init /\ [][NextStore]_vars

Spec == Init /\ [][Next]_vars

(***************************************************************************)
(* Runs under a fair event loop.  The loop runs every coroutine that is    *)
(* ready, client.get returns or raises within crawler_request_timeout and  *)
(* asyncio.sleep returns, so a run that has a step to take takes one.  The *)
(* writes of books and of change events may raise in the meantime.         *)
(***************************************************************************)
\* the steps of a run that is under way
RunStep ==
    \/ \E f \in Coroutines : Acquire(f)
    \/ \E f \in Coroutines, err \in FetchErrors : GetFailsRetry(f, err)
    \/ \E f \in Coroutines : Wake(f)
    \/ \E err \in FetchErrors : CatalogFails(err)
    \/ \E html \in CatalogHtml : CatalogFetched(html)
    \/ \E t \in Coroutines : TaskStart(t)
    \/ \E t \in Coroutines, err \in FetchErrors : TaskFetchFails(t, err)
    \/ \E t \in Coroutines, html \in BookHtml : TaskFetched(t, html)
    \/ GatherDone

\* the write calls save_book makes
BookWrites == {"books.insert_one", "books.update_one", "changes.insert_one"}

NextLive ==
    \/ \E resume \in BOOLEAN, fresh \in BOOLEAN : StartRun(resume, fresh)
    \/ RunStep
    \/ \E call \in BookWrites : StoreFails(call)
    \/ StoreRecovers

\* where a coroutine can be
PcStates ==
    {"idle", "start", "acquire", "get", "sleep", "done", "gather",
     "returned", "raised"}

\* some coroutine of the run can go on: a token is free for one that waits
\* for it, a sleep or a request is in progress, a task has not run yet, or
\* every task gather awaits has returned
Ready ==
    \/ \E f \in Coroutines : pc[f] = "acquire" /\ SemCanAcquire(semaphore)
    \/ \E f \in Coroutines : pc[f] = "sleep"
    \/ \E f \in Coroutines : pc[f] = "get" /\ Started
    \/ \E t \in Tasks : pc[t] = "start"
    \/ pc[0] = "gather" /\ BatchDone

\* a coroutine of the run goes on
Progress ==
    /\ Ready
    /\ pc' \in [Coroutines -> PcStates]
    /\ pc' # pc

SpecLive == Init /\ [][NextLive]_vars /\ WF_pc(Progress)

SpecFaulty == Init /\ [][NextFaulty]_vars

SpecSite == InitSite /\ [][NextSite]_vars

SpecStopped == Init /\ [][NextStopped]_vars

(***************************************************************************)
(* Direct calls of fetch_with_retry on a client whose responses are        *)
(* chosen freely, as a test with a mock client makes them.                 *)
(***************************************************************************)
\* Settings.crawler_retry_delay
crawler_retry_delay == 2

\* the argument of asyncio.sleep in the except clauses
RetryWaitFlat(att) == crawler_retry_delay

RetryWait(att) == crawler_retry_delay * (att + 1)

FetchResponses == {"ok"} \cup FetchErrors

\* fetch_with_retry(client, url, max_retries) is called and runs up to its
\* first client.get; max_retries = crawler_max_retries is also the call that
\* passes no max_retries
FetchCall(max_retries) ==
    /\ fetch.ret = "idle"
    /\ pc[0] = "idle"
    /\ fetch' = [fetch EXCEPT !.max_retries = max_retries, !.ret = "pending"]
    /\ pc' = [pc EXCEPT ![0] = Enter(0, semaphore)]
    /\ semaphore' = Taken(0, semaphore)
    /\ UNCHANGED <<books, changes, crawler_state, clock, visited_urls, url,
                   attempt, result, ctl, runs, history, env, hash_in, hash_out,
                   apiVars>>

\* client.get answers: return the text, sleep before the next attempt, or
\* return None
FetchResponds(resp) ==
    /\ fetch.ret = "pending"
    /\ pc[0] = "get"
    /\ semaphore' = semaphore + 1
    /\ LET answered == [fetch EXCEPT !.responses = Append(@, resp)]
       IN IF resp = "ok"
          THEN /\ fetch' = [answered EXCEPT !.ret = "html"]
               /\ pc' = [pc EXCEPT ![0] = "idle"]
          ELSE IF OnError(resp, attempt[0], fetch.max_retries) = "sleep"
          THEN /\ fetch' = [answered EXCEPT !.sleeps =
                               Append(@, RetryWait(attempt[0]))]
               /\ pc' = [pc EXCEPT ![0] = "sleep"]
          ELSE /\ fetch' = [answered EXCEPT !.ret = None]
               /\ pc' = [pc EXCEPT ![0] = "idle"]
    /\ UNCHANGED <<books, changes, crawler_state, clock, visited_urls, url,
                   attempt, result, ctl, runs, history, env, hash_in, hash_out,
                   apiVars>>

NextFetch ==
    \/ \E max_retries \in 0..(crawler_max_retries + 2) : FetchCall(max_retries)
    \/ \E resp \in FetchResponses : FetchResponds(resp)
    \/ Wake(0)

SpecFetch == Init /\ [][NextFetch]_vars

(***************************************************************************)
(* Calls of compute_content_hash on two dicts.                             *)
(***************************************************************************)
\* the same items inserted in the opposite order
Reversed(d) == [i \in DOMAIN d |-> d[Len(d) + 1 - i]]

\* the dict without key k
Without(d, k) == SelectSeq(d, LAMBDA item : item[1] # k)

\* a record as the parser builds it, the same with its keys inserted the other
\* way round, without its image_url, and with the metadata of a stored document
Shapes(d) ==
    {d, Reversed(d), Without(d, "image_url"),
     Merge(d, <<<<"status", "active">>, <<"last_updated", "7">>>>)}

HashInputs == UNION {Shapes(d) : d \in StoreInputs}

InitHash ==
    /\ InitScraper
    /\ env.layout = "shop"
    /\ hash_in \in HashInputs \X HashInputs

HashCall ==
    /\ hash_out = <<>>
    /\ hash_out' = <<compute_content_hash(hash_in[1]),
                     compute_content_hash(hash_in[2])>>
    /\ UNCHANGED <<books, changes, clock, crawlVars, history, fetch, hash_in,
                   apiVars>>

NextHash == HashCall

SpecHash == InitHash /\ [][NextHash]_vars

(***************************************************************************)
(* Direct calls of get_crawl_state and update_crawl_state, as the tests    *)
(* make them.                                                              *)
(***************************************************************************)
MaxStateCalls == 3

\* the values a call may give to a field of the Crawl State
StateValues(field) ==
    CASE field = "status" -> {"running", "failed"}
      [] field = "last_successful_url" -> {"page-1"}
      [] field = "total_books_crawled" -> {10, 50}

\* the dicts passed to update_crawl_state: one, two or three fields
StateInputs ==
    LET One(f) == {<<<<f, v>>>> : v \in StateValues(f)}
    IN One("status") \cup One("last_successful_url") \cup One("total_books_crawled")
       \cup {a \o b : a \in One("status"), b \in One("total_books_crawled")}
       \cup {a \o b \o c : a \in One("status"), b \in One("last_successful_url"),
                            c \in One("total_books_crawled")}

GetStateCall ==
    /\ state_call.n < MaxStateCalls
    /\ state_call' = [op |-> "get", arg |-> <<>>,
                      ret |-> get_crawl_state(crawler_state),
                      n |-> state_call.n + 1]
    /\ UNCHANGED <<books, changes, clock, crawlVars, history, fetch, hash_in,
                   hash_out, rateVars>>

UpdateStateCall(state_data) ==
    /\ state_call.n < MaxStateCalls
    /\ crawler_state' = update_crawl_state(crawler_state, state_data)
    /\ state_call' = [op |-> "update", arg |-> state_data, ret |-> <<>>,
                      n |-> state_call.n + 1]
    /\ UNCHANGED <<books, changes, clock, visited_urls, semaphore, pc, url,
                   attempt, result, ctl, runs, env, history, fetch, hash_in,
                   hash_out, rateVars>>

NextState ==
    \/ GetStateCall
    \/ \E state_data \in StateInputs : UpdateStateCall(state_data)

SpecState == Init /\ [][NextState]_vars

(***************************************************************************)
(* RateLimiter: the sliding window of each API key.  Time is counted in    *)
(* seconds.                                                                *)
(***************************************************************************)
MaxTime == 3
MaxHours == 1
MaxChecks == 4
MaxCleanups == 2

\* timedelta(hours=1), in seconds
Hour == 3600

\* the APIKey objects requests come with: key, rate_limit, rate_period.  The
\* key creation request requires a rate_limit of at least 1 and sets a period
\* of one hour; create_api_key itself and the key creation script take any
\* integers.
ApiKeys ==
    {[key |-> "test_key_3", rate_limit |-> 2, rate_period |-> 2],
     [key |-> "test_key_4", rate_limit |-> 1, rate_period |-> 2 * Hour],
     [key |-> "test_key_5", rate_limit |-> 0, rate_period |-> 2]}

\* min(times), max(times)
Min(times) ==
    CHOOSE t \in {times[i] : i \in DOMAIN times} :
        \A i \in DOMAIN times : t <= times[i]

Max(times) ==
    CHOOSE t \in {times[i] : i \in DOMAIN times} :
        \A i \in DOMAIN times : t >= times[i]

\* if request_count >= rate_limit
LimitReached(request_count, rate_limit) == request_count >= rate_limit

\* self.request_windows[api_key], [] for a key that is not in the dict
WindowOfAny(windows, api_key) ==
    IF DOMAIN windows = {} THEN <<>>
    ELSE windows[CHOOSE k \in DOMAIN windows :
                    \A j \in DOMAIN windows : Len(windows[k]) >= Len(windows[j])]

WindowOf(windows, api_key) ==
    IF api_key \in DOMAIN windows THEN windows[api_key] ELSE <<>>

\* check_rate_limit: the windows after the call, and the RateLimitInfo it
\* returns or the exception it raises: HTTPException with status 429, or the
\* ValueError of min() on an empty list
check_rate_limit(windows, api_key_obj, current_time) ==
    LET api_key == api_key_obj.key
        rate_limit == api_key_obj.rate_limit
        rate_period == api_key_obj.rate_period
        window_start == current_time - rate_period
        old == WindowOf(windows, api_key)
        InWindow(req_time) == req_time > window_start
        kept == SelectSeq(old, InWindow)
        request_count == Len(kept)
        With(times) == [k \in DOMAIN windows \cup {api_key} |->
                          IF k = api_key THEN times ELSE windows[k]]
    IN IF LimitReached(request_count, rate_limit)
       THEN IF kept = <<>>
            THEN [windows |-> With(kept),
                  raised |-> "ValueError",
                  limit |-> rate_limit,
                  remaining |-> 0,
                  reset_time |-> 0]
            ELSE [windows |-> With(kept),
                  raised |-> "HTTP_429_TOO_MANY_REQUESTS",
                  limit |-> rate_limit,
                  remaining |-> 0,
                  reset_time |-> Min(kept) + rate_period]
       ELSE [windows |-> With(Append(kept, current_time)),
             raised |-> None,
             limit |-> rate_limit,
             remaining |-> rate_limit - (request_count + 1),
             reset_time |-> current_time + rate_period]

\* the keys cleanup_old_windows removes
OldKeys(windows, cleanup_threshold) ==
    {k \in DOMAIN windows :
        windows[k] = <<>> \/ Max(windows[k]) < cleanup_threshold}

\* cleanup_old_windows: the first loop meets keys_to_remove before it is
\* assigned, so a key with an empty list raises UnboundLocalError before
\* anything is removed
cleanup_old_windows(windows, current_time) ==
    LET cleanup_threshold == current_time - Hour
        keys_to_remove == OldKeys(windows, cleanup_threshold)
    IN IF \E k \in DOMAIN windows : windows[k] = <<>>
       THEN [windows |-> windows, raised |-> "UnboundLocalError"]
       ELSE [windows |-> [k \in DOMAIN windows \ keys_to_remove |-> windows[k]],
             raised |-> None]

\* a second passes
Tick ==
    /\ rate_now % Hour < MaxTime
    /\ rate_now' = rate_now + 1
    /\ UNCHANGED <<books, changes, clock, crawlVars, history, fetch, hash_in,
                   hash_out, state_call, request_windows, rate_log,
                   cleanup_ret>>

\* an hour passes
HourPasses ==
    /\ rate_now < MaxHours * Hour
    /\ rate_now' = rate_now + Hour
    /\ UNCHANGED <<books, changes, clock, crawlVars, history, fetch, hash_in,
                   hash_out, state_call, request_windows, rate_log,
                   cleanup_ret>>

\* a request with this key reaches rate_limiter.check_rate_limit
CheckCall(api_key_obj) ==
    /\ Len(rate_log) < MaxChecks
    /\ LET r == check_rate_limit(request_windows, api_key_obj, rate_now)
       IN /\ request_windows' = r.windows
          /\ rate_log' = Append(rate_log,
                                [key |-> api_key_obj.key, at |-> rate_now,
                                 raised |-> r.raised, limit |-> r.limit,
                                 remaining |-> r.remaining,
                                 reset_time |-> r.reset_time])
    /\ UNCHANGED <<books, changes, clock, crawlVars, history, fetch, hash_in,
                   hash_out, state_call, rate_now, cleanup_ret>>

\* the middleware calls rate_limiter.cleanup_old_windows()
CleanupCall ==
    /\ cleanup_ret.n < MaxCleanups
    /\ LET r == cleanup_old_windows(request_windows, rate_now)
       IN /\ request_windows' = r.windows
          /\ cleanup_ret' = [raised |-> r.raised, n |-> cleanup_ret.n + 1]
    /\ UNCHANGED <<books, changes, clock, crawlVars, history, fetch, hash_in,
                   hash_out, state_call, rate_now, rate_log>>

NextRate ==
    \/ Tick
    \/ HourPasses
    \/ \E api_key_obj \in ApiKeys : CheckCall(api_key_obj)

SpecRate == Init /\ [][NextRate]_vars

NextCleanup == NextRate \/ CleanupCall

SpecCleanup == Init /\ [][NextCleanup]_vars

(***************************************************************************)
(* Vocabulary of the properties.                                           *)
(***************************************************************************)
\* the canonical subset and the tracked fields, as the specification lists them
CanonicalSubset ==
    {"name", "description", "category", "price_including_tax",
     "price_excluding_tax", "availability", "number_of_reviews", "rating"}

TrackedSubset ==
    {"price_including_tax", "price_excluding_tax", "availability",
     "number_of_reviews", "rating", "description"}

\* positions of the documents of url u in a books collection
Records(bks, u) == {i \in DOMAIN bks : Get(bks[i], "source_url") = u}

\* positions of the events of one type for one record in a change log
Events(log, id, type) ==
    {i \in DOMAIN log : log[i].book_id = id /\ log[i].change_type = type}

\* this step is a direct save_book call; its argument and return value
Saved == Len(history') = Len(history) + 1
Arg == history'[Len(history')].book_data
Ret == history'[Len(history')].ret

\* the content fields in which the submitted record differs from document doc
Differing(doc, data) == {f \in ContentFields : Get(doc, f) # Get(data, f)}

\* a save_book call with the record of the call before it
C2_Step ==
    (Saved /\ history # <<>> /\ Arg = history[Len(history)].book_data)
    => /\ books' = books
       /\ changes' = changes
       /\ Ret = history[Len(history)].ret
       /\ Ret # None
       /\ Cardinality(Events(changes', Ret, "new")) = 1
       /\ (\A j \in 1..(Len(history) - 1) :
              Get(history[j].book_data, "source_url") # Get(Arg, "source_url"))
          => Events(changes', Ret, "updated") = {}

\* C2: a save_book call with the same record as the call before it changes no
\* document, appends no event and returns the same id; the record then has
\* exactly one `new` event, and no `updated` event when the first of the two
\* calls was the first for its url.
C2_Idempotent == [][C2_Step]_vars

C2_Witness ==
    /\ Len(history) = 2
    /\ history[1].book_data = history[2].book_data
    /\ Len(changes) = 1
    /\ changes[1].change_type = "new"

\* a save_book call whose record differs from the stored one in one field
C3_Step ==
    \A i \in Records(books, Get(Arg, "source_url")), f \in TrackedSubset :
        (Saved /\ Differing(books[i], Arg) = {f})
        => /\ Len(changes') = Len(changes) + 1
           /\ SubSeq(changes', 1, Len(changes)) = changes
           /\ changes'[Len(changes')].change_type = "updated"
           /\ changes'[Len(changes')].book_id = Get(books[i], "_id")
           /\ changes'[Len(changes')].changed_fields =
                 <<<<f, [old |-> Get(books[i], f), new |-> Get(Arg, f)]>>>>
           /\ Ret = Get(books[i], "_id")

\* C3: when the submitted record differs from the stored one in exactly one
\* field and that field is tracked, save_book appends exactly one `updated`
\* event, whose changed_fields holds that field alone with the stored value as
\* old and the submitted value as new, and returns the id of the stored record.
C3_OneFieldChanged == [][Saved => C3_Step]_vars

C3_Witness ==
    /\ Len(history) = 2
    /\ Len(changes) = 2
    /\ changes[2].change_type = "updated"
    /\ changes[2].changed_fields =
          <<<<"price_including_tax", [old |-> "old_price_including_tax",
                                      new |-> "new_price_including_tax"]>>>>

\* a save_book call whose record differs from the stored one
C4_Step ==
    \A i \in Records(books, Get(Arg, "source_url")) :
        (\E f \in CanonicalSubset : Get(books[i], f) # Get(Arg, f))
        => /\ \A f \in CanonicalSubset : Get(books'[i], f) = Get(Arg, f)
           /\ Get(books'[i], "content_hash") # Get(books[i], "content_hash")
           /\ Len(changes') = Len(changes) + 1
           /\ changes'[Len(changes')].change_type = "updated"
           /\ changes'[Len(changes')].book_id = Get(books[i], "_id")

\* C4: whenever save_book finds a stored record that differs from the submitted
\* one in a field of the canonical subset, the record takes the submitted values
\* and the new hash and an `updated` event is appended for it.
C4_HashDiffLogged == [][Saved => C4_Step]_vars

\* C5: every `new` event has an empty changed_fields and every `updated` event
\* a non-empty one whose keys are fields of the canonical subset.
C5_EventShape ==
    \A i \in DOMAIN changes :
        /\ changes[i].change_type \in {"new", "updated"}
        /\ changes[i].change_type = "new" => changes[i].changed_fields = <<>>
        /\ changes[i].change_type = "updated" =>
              /\ changes[i].changed_fields # <<>>
              /\ DictKeys(changes[i].changed_fields) \subseteq CanonicalSubset

\* a record whose name alone changed was saved, and another change was logged
C5_Witness ==
    /\ Len(history) = 3
    /\ Get(history[2].book_data, "name") # Get(history[1].book_data, "name")
    /\ Len(changes) = 2
    /\ changes[1].change_type = "new"
    /\ changes[2].change_type = "updated"

\* C8: two records get the same content hash exactly when they agree on the
\* eight canonical fields, whatever the order of their keys and whatever their
\* other fields.
C8_HashCanonical ==
    hash_out # <<>> =>
        ((hash_out[1] = hash_out[2])
         <=> (\A f \in CanonicalSubset : Get(hash_in[1], f) = Get(hash_in[2], f)))

\* same canonical values under different key order, url and image: same hash
C8_Witness ==
    /\ hash_out # <<>>
    /\ hash_out[1] = hash_out[2]
    /\ hash_in[1][1][1] = "name"
    /\ hash_in[2][1][1] = "source_url"
    /\ Get(hash_in[1], "source_url") # Get(hash_in[2], "source_url")
    /\ Get(hash_in[1], "image_url") # Get(hash_in[2], "image_url")

\* the client.get calls in flight
InFlight == {f \in Coroutines : pc[f] = "get"}

\* C1: at every instant at most crawler_concurrent_requests fetches are inside
\* client.get, whatever the number of links of the page and whatever fails.
C1_ConcurrencyBound == Cardinality(InFlight) <= crawler_concurrent_requests

\* the limit is reached while another task of the page waits for a token
C1_Witness ==
    /\ Cardinality(InFlight) = crawler_concurrent_requests
    /\ \E t \in Tasks : pc[t] = "acquire"
    /\ Len(ctl.book_links) > crawler_concurrent_requests

\* the log after the step extends the log before it
C6_Step ==
    /\ Len(changes') >= Len(changes)
    /\ SubSeq(changes', 1, Len(changes)) = changes

\* C6: no step of a crawl (upsert, checkpoint, run start, run end, failure
\* handling) removes or alters an event of the change log: the log of every
\* later state extends the log of every earlier one.
C6_AppendOnly == [][C6_Step]_vars

\* a second run has failed after `new` and `updated` events were logged
C6_Witness ==
    /\ runs = 2
    /\ pc[0] = "raised"
    /\ \E i \in DOMAIN changes : changes[i].change_type = "new"
    /\ \E i \in DOMAIN changes : changes[i].change_type = "updated"

\* the `new` events of the records of url u
NewEventsOf(u) ==
    {i \in DOMAIN changes :
        /\ changes[i].change_type = "new"
        /\ \E j \in Records(books, u) : changes[i].book_id = Get(books[j], "_id")}

\* C7: for every interleaving of the tasks of a run the store holds at most
\* one record per url, the log at most one `new` event for it, and the record
\* holds the values and the hash of the page last served for the url: no
\* upsert is undone or skipped by another one.
C7_UpsertAtomic ==
    \A u \in BookUrls :
        /\ Cardinality(Records(books, u)) <= 1
        /\ Cardinality(NewEventsOf(u)) <= 1
        /\ \A j \in Records(books, u) :
              /\ \A f \in ContentFields :
                    Get(books[j], f) = Get(parse_book_page(env.site[u], u), f)
              /\ Get(books[j], "content_hash") =
                    compute_content_hash(parse_book_page(env.site[u], u))

\* both tasks of url A of page-1 have saved, the second a changed page
C7_Witness ==
    /\ runs = 1
    /\ pc[0] = "gather"
    /\ url[0] = "page-1"
    /\ pc[1] = "done" /\ result[1] = "True"
    /\ pc[3] = "done" /\ result[3] = "True"
    /\ \E i \in DOMAIN changes : changes[i].change_type = "updated"

\* the cursor stored in the Crawl State
Cursor(coll) ==
    IF coll = <<>> THEN None ELSE Get(coll[1], "last_successful_url")

\* the step that starts a run leaves it requesting its first page
C9_Step ==
    runs' = runs + 1 =>
        /\ pc'[0] = "get"
        /\ url'[0] = IF ctl'.resume /\ Cursor(crawler_state) # None
                     THEN Cursor(crawler_state)
                     ELSE FirstPage

\* C9: the first page a run requests is the stored cursor when resume is set
\* and the cursor is not null, and the first catalogue page otherwise, whatever
\* the stored Crawl State.
C9_StartPage == [][C9_Step]_vars

\* a resumed run requests page-2, the stored cursor
C9_Witness ==
    /\ runs = 2
    /\ ctl.resume
    /\ pc[0] = "get"
    /\ url[0] = "page-2"
    /\ Cursor(crawler_state) = "page-2"

\* client.get calls of the fetch_with_retry call so far
Attempts == Len(fetch.responses) + (IF pc[0] = "get" THEN 1 ELSE 0)

\* every response so far was a transient failure
AllTransient ==
    \A i \in DOMAIN fetch.responses :
        fetch.responses[i] \in {"http_status", "request_error"}

\* C10 as stated: a call makes at most max_retries attempts, and reports
\* failure after exactly max_retries attempts when all of them fail
\* transiently (left aside the calls with max_retries = 0).
C10_AtMostMaxRetries ==
    fetch.max_retries >= 1 =>
        /\ Attempts <= fetch.max_retries
        /\ (fetch.ret = None /\ AllTransient)
           => Len(fetch.responses) = fetch.max_retries

\* C10, amended: a call makes at most max_retries + 1 attempts, and reports
\* failure after exactly max_retries + 1 attempts when all of them fail
\* transiently.
C10_AtMostMaxRetriesPlusOne ==
    /\ Attempts <= fetch.max_retries + 1
    /\ (fetch.ret = None /\ AllTransient)
       => Len(fetch.responses) = fetch.max_retries + 1

C10_Witness ==
    /\ fetch.ret = None
    /\ AllTransient
    /\ fetch.max_retries = crawler_max_retries
    /\ Len(fetch.responses) = crawler_max_retries + 1

\* the responses before the last one were all transient failures
TransientThenLast ==
    \A i \in 1..(Len(fetch.responses) - 1) :
        fetch.responses[i] \in {"http_status", "request_error"}

\* C11: a fetch whose attempts fail transiently and then succeed returns the
\* content; the wait before the k-th retry is crawler_retry_delay * k, so the
\* waits increase strictly, one wait follows each failed attempt but the last
\* one of a call that gives up.
C11_RetryWaits ==
    /\ \A k \in DOMAIN fetch.sleeps : fetch.sleeps[k] = crawler_retry_delay * k
    /\ \A k \in 1..(Len(fetch.sleeps) - 1) : fetch.sleeps[k] < fetch.sleeps[k + 1]
    /\ (fetch.responses # <<>> /\ TransientThenLast
        /\ fetch.responses[Len(fetch.responses)] = "ok")
       => /\ fetch.ret = "html"
          /\ Len(fetch.sleeps) = Len(fetch.responses) - 1
    /\ fetch.ret = None => Len(fetch.sleeps) = Len(fetch.responses) - 1
    /\ pc[0] = "sleep" => Len(fetch.sleeps) = Len(fetch.responses)

\* two transient failures, two waits, then the content
C11_Witness ==
    /\ Len(fetch.responses) = 3
    /\ fetch.responses[1] = "http_status"
    /\ fetch.responses[2] = "request_error"
    /\ fetch.responses[3] = "ok"
    /\ fetch.ret = "html"
    /\ fetch.sleeps = <<crawler_retry_delay, 2 * crawler_retry_delay>>

\* C12: a 404 response ends the call with None at once: no attempt and no wait
\* follows it, whichever attempt it answers; a 404 on the first attempt makes
\* the call return after exactly one attempt.
C12_NotFoundTerminal ==
    \A i \in DOMAIN fetch.responses :
        fetch.responses[i] = "http_404"
        => /\ i = Len(fetch.responses)
           /\ fetch.ret = None
           /\ pc[0] = "idle"
           /\ Len(fetch.sleeps) = i - 1

\* a 404 on the second attempt of a call that had retries left
C12_Witness ==
    /\ fetch.max_retries > 1
    /\ fetch.responses = <<"http_status", "http_404">>
    /\ fetch.ret = None

Status(coll) == IF coll = <<>> THEN "idle" ELSE Get(coll[1], "status")

\* the tasks of the page that returned False
FailedTasks == {t \in Tasks : result[t] = "False"}

\* a step of a run one of whose children failed, and the step in which a
\* child fails
C14_Step ==
    /\ \A t \in Tasks :
          (result'[t] = "False" /\ result[t] # "False")
          => /\ pc'[0] = "gather"
             /\ \A o \in Tasks \ {t} : pc'[o] = pc[o] /\ result'[o] = result[o]
    /\ (pc[0] = "gather" /\ FailedTasks # {})
       => /\ pc'[0] # "raised"
          /\ pc'[0] # "gather"
             => /\ \A t \in Tasks : pc[t] = "done"
                /\ Cursor(crawler_state') = url[0]
                /\ IF ctl.next_page_url # None
                   THEN /\ url'[0] = ctl.next_page_url
                        /\ pc'[0] \in {"get", "acquire"}
                        /\ Status(crawler_state') = "running"
                   ELSE /\ pc'[0] = "returned"
                        /\ Status(crawler_state') = "completed"

\* C14: a child that fails (not found, retries used up, page not parsed) ends
\* neither the page nor the run: the other children go on, the run leaves the
\* page only when all its children are done, with the page's checkpoint
\* written, and goes on to the next page, or ends completed after the last.
C14_ChildFailureContained == [][C14_Step]_vars

\* first run: one child of page-1 failed, the page is checkpointed with two
\* successes and page-2 is being fetched
C14_Witness ==
    /\ runs = 1
    /\ pc[0] = "get"
    /\ url[0] = "page-2"
    /\ Cursor(crawler_state) = "page-1"
    /\ ctl.total_books = 2
    /\ env.faults = 1

\* C15: once a write call of the store has raised during a run (in save_book
\* or in update_crawl_state), the run processes no further page and does not
\* return normally: it stays on the page of the failure until it raises.
C15_WriteFailureFatal ==
    env.failed_at # None
    => /\ pc[0] # "returned"
       /\ Running => url[0] = env.failed_at

\* the total stored in the Crawl State
Total(coll) == IF coll = <<>> THEN 0 ELSE Get(coll[1], "total_books_crawled")

\* the error message stored in the Crawl State
ErrorMessage(coll) == IF coll = <<>> THEN None ELSE Get(coll[1], "error_message")

\* the step in which an exception leaves crawl_all_books, and the steps after
\* it up to the next call
C16_Step ==
    /\ (pc'[0] = "raised" /\ pc[0] # "raised")
       => /\ Status(crawler_state') = "failed"
          /\ ErrorMessage(crawler_state') =
                "not enough values to unpack (expected 2, got 0)"
          /\ \A t \in Coroutines : pc'[t] \in {"idle", "done", "raised"}
          /\ semaphore' = crawler_concurrent_requests
    /\ (pc[0] = "raised" /\ runs' = runs)
       => /\ pc'[0] = "raised"
          /\ UNCHANGED <<books, changes, crawler_state>>

\* C16: when an exception leaves the page loop of crawl_all_books the run
\* stops, the Crawl State gets status `failed` and the message of the
\* exception, and the exception reaches the caller; the run does not end as
\* completed.
C16_EscapeMarksFailed == [][C16_Step]_vars

\* a run has failed on page-2, after page-1 was processed
C16_Witness ==
    /\ pc[0] = "raised"
    /\ Status(crawler_state) = "failed"
    /\ ErrorMessage(crawler_state) # None
    /\ Cursor(crawler_state) = "page-1"
    /\ Total(crawler_state) > 0

\* what the controller notes when a page without links ended the page loop
NoLinks == {"no_links", "no_links_next"}

C17_Step ==
    (result'[0] \in NoLinks /\ result[0] \notin NoLinks)
    => /\ pc'[0] = "returned"
       /\ Status(crawler_state') = "completed"
       /\ ErrorMessage(crawler_state') = None
       /\ Cursor(crawler_state') = Cursor(crawler_state)
       /\ Total(crawler_state') = ctl.total_books
       /\ UNCHANGED <<books, changes>>

FirstRunDone ==
    /\ env.layout = "scenario"
    /\ runs = 1
    /\ pc[0] = "returned"
    /\ env.faults = 0

\* C18: the first run over page-1 = [A, B], page-2 = [] on an empty store, with
\* every fetch and parse succeeding, leaves exactly two events, a `new` one
\* for A and a `new` one for B, and the Crawl State completed with total 2.
C18_FirstRun ==
    FirstRunDone
    => /\ Len(changes) = 2
       /\ \A i \in DOMAIN changes : changes[i].change_type = "new"
       /\ \A u \in BookUrls :
             Cardinality(Records(books, u)) = 1 /\ Cardinality(NewEventsOf(u)) = 1
       /\ Status(crawler_state) = "completed"
       /\ Total(crawler_state) = 2

C18_Witness ==
    /\ FirstRunDone
    /\ Len(books) = 2
    /\ Len(changes) = 2
    /\ Cursor(crawler_state) = "page-1"

\* C19: a second run from the first page, after a first run stored A and B
\* and the availability text of A changed, appends exactly one event: an
\* `updated` one for A with the availability diff, and none for B, on the
\* scraper of the first run as on a new one.
C19_SecondRunDetects ==
    (/\ env.layout = "scenario"
     /\ runs = 2
     /\ pc[0] = "returned"
     /\ env.faults = 0
     /\ env.between = [url |-> "A", run |-> 1])
    => /\ Len(changes) = 3
       /\ changes[3].change_type = "updated"
       /\ \E j \in Records(books, "A") : changes[3].book_id = Get(books[j], "_id")
       /\ changes[3].changed_fields =
             <<<<"availability", [old |-> "old_availability",
                                 new |-> "new_availability"]>>>>

\* a step that moves the stored cursor, and the step that ends a batch
C20_Step ==
    /\ Cursor(crawler_state') # Cursor(crawler_state)
       => /\ pc[0] = "gather"
          /\ Tasks # {}
          /\ \A t \in Tasks : pc[t] = "done"
          /\ Cursor(crawler_state') = url[0]
    /\ (pc[0] = "gather" /\ pc'[0] # "gather")
       => Cursor(crawler_state') = url[0]

\* C20: the stored cursor is set only when every child task of the current
\* page is done, and then to that page: never to a page whose batch is in
\* progress or was not dispatched.
C20_CursorAfterBatch == [][C20_Step]_vars

\* the cursor has moved on from page-1 to page-2
C20_Witness ==
    /\ runs = 1
    /\ Cursor(crawler_state) = "page-2"
    /\ pc[0] = "returned"

\* the total a reader of the Crawl State finds: 0 while none was written
StoredTotal(coll) ==
    IF coll = <<>> \/ ~In("total_books_crawled", coll[1]) THEN 0
    ELSE Get(coll[1], "total_books_crawled")

\* the step in which gather returns and the page is checkpointed
C21_Step ==
    (pc[0] = "gather" /\ pc'[0] # "gather")
    => StoredTotal(crawler_state') = StoredTotal(crawler_state) + Successes

\* C21: at each page checkpoint the stored total grows by exactly the number
\* of children of that page that succeeded: stored total after = stored total
\* before + successes of the page, on the first page of a later run too.
C21_TotalAccumulates == [][C21_Step]_vars

\* the positions of a coroutine inside fetch_with_retry
Fetching == {"get", "acquire", "sleep"}

\* the step in which the controller goes on to the next page, and any state
\* in which it fetches a page
C22_Step ==
    /\ (pc[0] = "gather" /\ pc'[0] \in Fetching)
       => /\ \A t \in Tasks : pc[t] = "done"
          /\ Cursor(crawler_state') = url[0]
          /\ url'[0] = ctl.next_page_url
    /\ pc'[0] \in Fetching
       => \A f \in Coroutines \ {0} : pc'[f] = "idle"

\* C22: pages are processed one after the other: the fetch of the next page
\* starts only when every child task of the current page is done and the
\* checkpoint of the current page is written, and no child task is under way
\* while a page is fetched.
C22_PagesSequential == [][C22_Step]_vars

\* page-2 is fetched after the batch of page-1, in which the second child
\* failed, was checkpointed
C22_Witness ==
    /\ pc[0] = "get"
    /\ url[0] = "page-2"
    /\ Cursor(crawler_state) = "page-1"
    /\ ctl.total_books = 2

\* within a page the children complete in any order: the last before the first
C22_AnyOrder ==
    /\ pc[0] = "gather"
    /\ pc[1] = "get"
    /\ pc[3] = "done"

\* the status written and kept through a run: what C23 says of every step
\* but the one that writes `completed`
C23_Lifecycle ==
    /\ runs' # runs
       => Status(crawler_state') = "running" /\ pc'[0] \in Fetching
    /\ pc'[0] \in Fetching \cup {"gather"} => Status(crawler_state') = "running"
    /\ pc'[0] = "raised" <=> (runs' > 0 /\ Status(crawler_state') = "failed")
    /\ pc'[0] = "returned" <=> Status(crawler_state') = "completed"
    /\ (pc[0] \in {"returned", "raised"} /\ runs' = runs)
       => Status(crawler_state') = Status(crawler_state)
    /\ runs' > 0 => Status(crawler_state') # "idle"
    /\ (pc[0] = "gather" /\ pc'[0] # "gather" /\ ctl.next_page_url = None)
       => pc'[0] = "returned"

\* the step that ends a run normally
Returns == pc[0] # "returned" /\ pc'[0] = "returned"

\* the page the controller holds had no link to a next page
NoNextCursor ==
    \/ pc[0] = "gather" /\ ctl.next_page_url = None
    \/ result'[0] = "no_links"

C23_StepExact == C23_Lifecycle /\ (Returns => NoNextCursor)

C23_Step ==
    C23_Lifecycle /\ (Returns => (NoNextCursor \/ result'[0] = "no_links_next"))

C24_ResumeIdempotent ==
    (env.resumed /\ pc[0] = "returned" /\ env.changes = 0)
    => /\ \A u \in BookUrls :
             /\ Cardinality(Records(books, u)) <= 1
             /\ Records(books, u) # {} => Cardinality(NewEventsOf(u)) = 1
       /\ Len(changes) = Len(books)

\* the step in which a run is interrupted, and the steps after it until the
\* next run
C25_Step ==
    /\ (pc'[0] = "interrupted" /\ pc[0] # "interrupted")
       => /\ UNCHANGED <<crawler_state, books, changes>>
          /\ Status(crawler_state') = "running"
          /\ \A f \in Coroutines : pc'[f] \notin Fetching \cup {"start"}
    /\ (pc[0] = "interrupted" /\ runs' = runs)
       => /\ UNCHANGED <<crawler_state, books, changes>>
          /\ \A f \in Coroutines : pc'[f] \notin Fetching \cup {"start"}

\* C25: when a run is interrupted from outside, no fetch is dispatched
\* afterwards and the Crawl State is left as the last checkpoint wrote it,
\* cursor and total included; the interrupt does not write `failed`.
C25_InterruptKeepsState == [][C25_Step]_vars

\* interrupted on page-2, after the checkpoint of page-1
C25_Witness ==
    /\ pc[0] = "interrupted"
    /\ Status(crawler_state) = "running"
    /\ Cursor(crawler_state) = "page-1"
    /\ StoredTotal(crawler_state) = 3

\* C26: get_crawl_state called while no Crawl State was ever persisted
\* returns the default: status `idle`, no cursor, no crawl time, total 0, no
\* error message.
C26_DefaultState ==
    (state_call.op = "get" /\ crawler_state = <<>>)
    => /\ DictKeys(state_call.ret) =
             {"status", "last_successful_url", "last_crawl_time",
              "total_books_crawled", "error_message"}
       /\ Get(state_call.ret, "status") = "idle"
       /\ Get(state_call.ret, "last_successful_url") = None
       /\ Get(state_call.ret, "last_crawl_time") = None
       /\ Get(state_call.ret, "total_books_crawled") = 0
       /\ Get(state_call.ret, "error_message") = None

\* get_crawl_state was called twice on the empty collection
C26_Witness ==
    /\ state_call.op = "get"
    /\ state_call.n = 2
    /\ crawler_state = <<>>
    /\ Get(state_call.ret, "status") = "idle"

\* the fields of a Crawl State document
StateFields ==
    {"status", "last_successful_url", "last_crawl_time", "total_books_crawled",
     "error_message"}

\* a step that is an update_crawl_state call
C27_Step ==
    (state_call'.op = "update" /\ state_call'.n # state_call.n)
    => /\ Len(crawler_state') = 1
       /\ \A k \in DictKeys(state_call'.arg) :
             Get(get_crawl_state(crawler_state'), k) = Get(state_call'.arg, k)
       /\ \A k \in StateFields \ DictKeys(state_call'.arg) :
             IF crawler_state = <<>> THEN ~In(k, crawler_state'[1])
             ELSE /\ In(k, crawler_state'[1]) <=> In(k, crawler_state[1])
                  /\ Get(crawler_state'[1], k) = Get(crawler_state[1], k)

Holders == {f \in Coroutines : pc[f] = "get"}

\* what a step may write, by the component that takes it
C28_Step ==
    /\ (\E f \in Coroutines :
           pc[f] \in Fetching /\ pc'[f] \in Fetching /\ pc'[f] # pc[f])
       => UNCHANGED <<books, changes, crawler_state, visited_urls>>
    /\ semaphore' + Cardinality({f \in Coroutines : pc'[f] = "get"})
          = crawler_concurrent_requests
    /\ (books' # books \/ changes' # changes)
       => /\ \E t \in Tasks : pc[t] = "get" /\ pc'[t] = "done"
          /\ crawler_state' = crawler_state
    /\ crawler_state' # crawler_state
       => /\ pc'[0] # pc[0] \/ runs' # runs
          /\ UNCHANGED <<books, changes>>

\* C28: the components write disjoint state: a step inside fetch_with_retry
\* changes no stored state and the semaphore always has one token less per
\* request in progress; records and the change log change only in the save
\* step of a child task, which leaves the Crawl State alone; the Crawl State
\* changes only in steps of crawl_all_books itself.
C28_DisjointOwnership == [][C28_Step]_vars

\* a child has saved its record, after a retry, and the Crawl State is as the
\* start of the run left it
C28_Witness ==
    /\ pc[0] = "gather"
    /\ Len(books) = 1
    /\ env.faults = 1
    /\ Holders = {}
    /\ semaphore = crawler_concurrent_requests
    /\ Cursor(crawler_state) = None
    /\ Status(crawler_state) = "running"

\* a save_book call for a url that has no document
C29_Step ==
    (Saved /\ Records(books, Get(Arg, "source_url")) = {})
    => /\ Len(books') = Len(books) + 1
       /\ \A i \in DOMAIN books : books'[i] = books[i]
       /\ Len(changes') = Len(changes) + 1
       /\ \A i \in DOMAIN changes : changes'[i] = changes[i]
       /\ LET doc == books'[Len(books')]
              event == changes'[Len(changes')]
          IN /\ Get(doc, "status") = "active"
             /\ \A f \in DictKeys(Arg) : Get(doc, f) = Get(Arg, f)
             /\ Get(doc, "content_hash") = compute_content_hash(Arg)
             /\ Ret # None
             /\ Get(doc, "_id") = Ret
             /\ event.change_type = "new"
             /\ event.book_id = Ret

\* C29: save_book for a url that has no document inserts exactly one document,
\* with status `active`, the submitted values and the content hash of the
\* submitted record, appends exactly one `new` event that refers to it, and
\* returns its id, which is not None.
C29_InsertNew == [][C29_Step]_vars

\* the records of two urls were inserted one after the other
C29_Witness ==
    /\ Len(history) = 2
    /\ Len(books) = 2
    /\ Len(changes) = 2
    /\ history[2].ret = Get(books[2], "_id")
    /\ changes[2].change_type = "new"

\* the calls with key k that were accepted at a time in (lo, hi]
Accepted(k, lo, hi) ==
    {i \in DOMAIN rate_log :
        /\ rate_log[i].key = k
        /\ rate_log[i].raised = None
        /\ lo < rate_log[i].at
        /\ rate_log[i].at <= hi}

\* C30: of the requests of one key, check_rate_limit accepts at most
\* rate_limit within any window of rate_period seconds (counted from just
\* after its start to its end); it raises HTTP 429 when rate_limit accepted
\* requests of the key lie inside the window that ends at the call, and
\* accepts when fewer do.
C30_SlidingWindow ==
    /\ \A a \in ApiKeys, i \in DOMAIN rate_log :
          rate_log[i].key = a.key
          => Cardinality(Accepted(a.key, rate_log[i].at - a.rate_period,
                                  rate_log[i].at)) <= a.rate_limit
    /\ \A a \in ApiKeys, i \in DOMAIN rate_log :
          rate_log[i].key = a.key
          => LET inside == {j \in Accepted(a.key, rate_log[i].at - a.rate_period,
                                           rate_log[i].at) : j < i}
             IN rate_log[i].raised = "HTTP_429_TOO_MANY_REQUESTS"
                <=> Cardinality(inside) >= a.rate_limit

\* two requests of a key accepted, the third rejected, and a fourth accepted
\* when the first had left the window
C30_Witness ==
    /\ Len(rate_log) = 4
    /\ \A i \in 1 .. 4 : rate_log[i].key = "test_key_3"
    /\ rate_log[1].raised = None
    /\ rate_log[2].raised = None
    /\ rate_log[3].raised = "HTTP_429_TOO_MANY_REQUESTS"
    /\ rate_log[4].raised = None
    /\ rate_log[4].at < rate_log[1].at + 3

\* the APIKey object of a key
KeyObj(k) == CHOOSE a \in ApiKeys : a.key = k

\* the windows of a limiter that received, of the first n calls, only those
\* of key k
RECURSIVE Alone(_, _)
Alone(k, n) ==
    IF n = 0 THEN [j \in {} |-> <<>>]
    ELSE IF rate_log[n].key = k
         THEN check_rate_limit(Alone(k, n - 1), KeyObj(k), rate_log[n].at).windows
         ELSE Alone(k, n - 1)

\* C31: rate limits are per key: whatever the interleaving of the requests of
\* different keys, the outcome of every request (accepted or not, and the
\* remaining count and reset time reported) is the one the limiter gives when
\* it receives the requests of that key alone.
C31_PerKey ==
    \A i \in DOMAIN rate_log :
        LET e == rate_log[i]
            r == check_rate_limit(Alone(e.key, i - 1), KeyObj(e.key), e.at)
        IN /\ e.raised = r.raised
           /\ e.remaining = r.remaining
           /\ e.reset_time = r.reset_time

\* one key is exhausted and rejected, and between its requests another key,
\* with a smaller limit, is accepted
C31_Witness ==
    /\ Len(rate_log) = 4
    /\ rate_log[1].key = "test_key_3" /\ rate_log[1].raised = None
    /\ rate_log[2].key = "test_key_3" /\ rate_log[2].raised = None
    /\ rate_log[3].key = "test_key_3"
    /\ rate_log[3].raised = "HTTP_429_TOO_MANY_REQUESTS"
    /\ rate_log[4].key = "test_key_4" /\ rate_log[4].raised = None
    /\ rate_log[4].at = rate_log[1].at

\* the keys with a recorded request within the last hour
Recent(windows, now) ==
    {k \in DOMAIN windows : windows[k] # <<>> /\ Max(windows[k]) >= now - Hour}

\* a step that is a cleanup_old_windows call
C32_Step ==
    cleanup_ret'.n # cleanup_ret.n
    => /\ cleanup_ret'.raised = None
       /\ DOMAIN request_windows' = Recent(request_windows, rate_now)
       /\ \A k \in DOMAIN request_windows' :
             request_windows'[k] = request_windows[k]

\* C32: cleanup_old_windows, called in any reachable state of the limiter,
\* raises nothing, removes every key that has no recorded request or whose
\* most recent one is older than an hour, and keeps every other key with its
\* window as it was.
C32_CleanupTotal == [][C32_Step]_vars

\* how long after the cleanup the next request of a key arrives
Delays == {0, 1, Hour}

\* C40: cleanup_old_windows changes no decision: in every reachable state
\* and for every key, a later check_rate_limit call accepts or rejects in the
\* same way whether or not cleanup_old_windows was called before it.
C40_CleanupNeutral ==
    \A a \in ApiKeys, d \in Delays :
        check_rate_limit(request_windows, a, rate_now + d).raised
        = check_rate_limit(cleanup_old_windows(request_windows, rate_now).windows,
                           a, rate_now + d).raised

\* the step in which a scrape_book task returns, and any step that changes
\* visited_urls within a run
C33_Step ==
    /\ \A t \in Tasks :
          (pc[t] # "done" /\ pc'[t] = "done" /\ pc[0] = "gather")
          => /\ result'[t] \in {"True", "False"}
             /\ result'[t] = "False" => visited_urls' = visited_urls
             /\ (result'[t] = "True" /\ pc[t] = "start")
                => url[t] \in visited_urls /\ visited_urls' = visited_urls
             /\ (result'[t] = "True" /\ pc[t] = "get")
                => /\ visited_urls' = visited_urls \cup {url[t]}
                   /\ env'.site[url[t]] # "garbage"
                   /\ \E i \in Records(books', url[t]) :
                         Get(books'[i], "content_hash") =
                            compute_content_hash(
                               parse_book_page(env'.site[url[t]], url[t]))
    /\ (visited_urls' # visited_urls /\ runs' = runs)
       => \E t \in Tasks : pc[t] = "get" /\ result'[t] = "True"
    /\ \A t \in Tasks :
          (pc[t] = "start" /\ pc'[t] # "start" /\ url[t] \notin visited_urls)
          => pc'[t] \in Fetching

\* C33: a scrape_book task returns True and adds its url to visited_urls only
\* when the page was fetched and parsed and save_book returned an id (or the
\* url was visited already, and then nothing is fetched); when the fetch, the
\* parse or the save fails it returns False and visited_urls is unchanged, so
\* the url is fetched again the next time it is listed.
C33_VisitedOnSuccess == [][C33_Step]_vars

\* the first child of the page failed in save_book and the second succeeded
C33_Witness ==
    /\ pc[0] = "gather"
    /\ result[1] = "False"
    /\ result[2] = "True"
    /\ url[1] \notin visited_urls
    /\ url[2] \in visited_urls
    /\ env.failed_at = "page-1"
    /\ books # <<>>

\* C34: the tokens of the semaphore are conserved: exactly the coroutines
\* whose request is in progress hold one, so none is held while waiting for a
\* token or sleeping in backoff, every outcome of a request gives the token
\* back, and all crawler_concurrent_requests tokens are free whenever no
\* request is in progress.
C34_TokensConserved ==
    /\ semaphore \in 0 .. crawler_concurrent_requests
    /\ semaphore + Cardinality(Holders) = crawler_concurrent_requests
    /\ Holders = {} => semaphore = crawler_concurrent_requests
    /\ \A f \in Coroutines : pc[f] \in {"sleep", "acquire"} => f \notin Holders

\* two children sleep in backoff and the third has the only token taken
C34_Witness ==
    /\ pc[0] = "gather"
    /\ pc[1] = "sleep"
    /\ pc[2] = "sleep"
    /\ pc[3] = "get"
    /\ semaphore = crawler_concurrent_requests - 1

\* the time of the last checkpoint or completion stored in the Crawl State
LastCrawlTime(coll) ==
    IF coll = <<>> THEN None ELSE Get(coll[1], "last_crawl_time")

\* the steps that write the Crawl State, and what they do to the cursor
C38_Step ==
    /\ runs' = runs + 1
       => /\ Status(crawler_state') = "running"
          /\ Cursor(crawler_state') = Cursor(crawler_state)
    /\ (pc[0] = "get" /\ pc'[0] = "returned")
       => /\ Status(crawler_state') = "completed"
          /\ Cursor(crawler_state') = Cursor(crawler_state)
    /\ (pc[0] \in Fetching /\ pc'[0] = "raised")
       => /\ Status(crawler_state') = "failed"
          /\ Cursor(crawler_state') = Cursor(crawler_state)
          /\ StoredTotal(crawler_state') = StoredTotal(crawler_state)
          /\ LastCrawlTime(crawler_state') = LastCrawlTime(crawler_state)
    /\ Cursor(crawler_state') # Cursor(crawler_state)
       => /\ pc[0] = "gather"
          /\ BatchDone
          /\ Cursor(crawler_state') = url[0]

\* C38: the cursor stored in the Crawl State changes only in the checkpoint
\* that follows a page's batch: the update at the start of a run, the
\* completion update and the failure update leave last_successful_url as it
\* was, and the failure update leaves total_books_crawled and last_crawl_time
\* as they were too.
C38_CursorOnlyAtCheckpoint == [][C38_Step]_vars

\* a later run failed at a catalogue page after an earlier one had stored a
\* cursor, a total and a time
C38_Witness ==
    /\ pc[0] = "raised"
    /\ runs = 2
    /\ Status(crawler_state) = "failed"
    /\ Cursor(crawler_state) # None
    /\ StoredTotal(crawler_state) > 0
    /\ LastCrawlTime(crawler_state) # None

\* the step in which the request for a catalogue page ends without a page
C39_Step ==
    (pc[0] = "get" /\ runs' = runs /\ pc'[0] \notin {"get", "returned", "gather"})
    => /\ pc'[0] \in {"sleep", "raised"}
       /\ pc'[0] = "sleep"
          => /\ attempt[0] < LastAttempt(crawler_max_retries)
             /\ UNCHANGED <<books, changes, crawler_state, url>>
       /\ pc'[0] = "raised"
          => /\ Status(crawler_state') = "failed"
             /\ ErrorMessage(crawler_state') # None
             /\ Cursor(crawler_state') = Cursor(crawler_state)
             /\ UNCHANGED <<books, changes, visited_urls>>

\* C39: when a catalogue page cannot be fetched (404, or an error on every
\* attempt) the run ends by raising to its caller with status failed and an
\* error_message that is not None in the Crawl State, and the stored cursor
\* stays where the last checkpoint put it.
C39_CatalogFailureFails == [][C39_Step]_vars

\* the second page failed on every attempt after the batch of the first
C39_Witness ==
    /\ pc[0] = "raised"
    /\ runs = 1
    /\ env.faults = MaxFaults
    /\ Status(crawler_state) = "failed"
    /\ ErrorMessage(crawler_state) # None
    /\ Cursor(crawler_state) = FirstPage
    /\ StoredTotal(crawler_state) = Len(SiteLinks(FirstPage))

\* C36: in every reachable state every record of the books collection has
\* exactly one event of type new in the change log that carries its id, also
\* after a write to the change log failed and after the process stopped
\* between the insert of the record and the insert of the event.
C36_OneNewEventPerRecord ==
    \A i \in DOMAIN books :
        Cardinality(Events(changes, Get(books[i], "_id"), "new")) = 1

\* C37: every event of type updated in the change log describes a change the
\* store holds: the record it names was updated to the new values of the
\* event (the latest event of a record agrees with the record field by field),
\* so an update_one that failed leaves no event, and no two events of a record
\* log the same change.
C37_UpdatedEventsApplied ==
    /\ \A i \in DOMAIN changes :
          changes[i].change_type = "updated"
          => \E b \in DOMAIN books :
                /\ Get(books[b], "_id") = changes[i].book_id
                /\ (\A j \in DOMAIN changes :
                       (j > i /\ changes[j].change_type = "updated")
                       => changes[j].book_id # changes[i].book_id)
                   => \A f \in DOMAIN changes[i].changed_fields :
                         Get(books[b], changes[i].changed_fields[f][1]) =
                            changes[i].changed_fields[f][2].new
    /\ \A i, j \in DOMAIN changes :
          (/\ i < j
           /\ changes[i].change_type = "updated"
           /\ changes[j].change_type = "updated"
           /\ changes[i].book_id = changes[j].book_id)
          => changes[i].changed_fields # changes[j].changed_fields

\* C35: every run over the catalogue, whose next-page links form a chain of
\* two pages, ends: under a fair event loop a run that is under way leads to
\* crawl_all_books having returned or raised with status completed or failed
\* in the Crawl State, whatever fetches fail, pages do not parse and writes
\* of save_book raise, and with three tasks on a page for two tokens.
C35_RunsEnd ==
    Running ~> (/\ pc[0] \in {"returned", "raised"}
                /\ Status(crawler_state) \in {"completed", "failed"})

\* a run over both pages completed although two of its saves or fetches failed
C35_Witness ==
    /\ pc[0] = "returned"
    /\ runs = 1
    /\ Status(crawler_state) = "completed"
    /\ Cursor(crawler_state) = SiteNext(FirstPage)
    /\ env.faults = MaxFaults
    /\ StoredTotal(crawler_state) <
          Len(SiteLinks(FirstPage)) + Len(SiteLinks(SiteNext(FirstPage)))

====
